---- MODULE Spec2Model ----
(***************************************************************************)
(* MoviWebApp: the DataManager (data_manager.py), the schema (models.py)   *)
(* and the mutating Flask routes (app.py) as a state machine over the      *)
(* contents of the user and movie tables.                                  *)
(*                                                                         *)
(* Python strings are sequences of one-character strings, so that strip(), *)
(* lower(), int() and LIKE are computed and not assumed.  A Python value   *)
(* is None, Str(s) or Num(i).                                              *)
(***************************************************************************)
EXTENDS Integers, Sequences, FiniteSets, TLC

VARIABLES
    users,          \* rows of table "user":  [id, name]
    movies,         \* rows of table "movie": [id, user_id, title, year, imdb_id, poster_url, rating]
    movie_columns,  \* the mapped attributes the Movie class declares
    reqs,           \* in-flight add_movie requests (one per worker thread)
    last            \* outcome of the most recent call or request

vars == <<users, movies, movie_columns, reqs, last>>

\* ---------------------------------------------------------------- bounds

MaxUsers == 2      \* user ids stay within 1..MaxUsers
MaxMovies == 2     \* movie ids stay within 1..MaxMovies
NumRequests == 2   \* add_movie requests that may be in flight at once

\* ---------------------------------------------------------- Python values

None == [t |-> "none"]
Str(s) == [t |-> "str", s |-> s]
Num(i) == [t |-> "int", i |-> i]

IsNone(x) == x.t = "none"
IsStr(x) == x.t = "str"
IsInt(x) == x.t = "int"

\* bool(x): None, "" and 0 are falsy
Truthy(x) ==
    CASE IsNone(x) -> FALSE
      [] IsStr(x) -> x.s # <<>>
      [] IsInt(x) -> x.i # 0

\* x or y
Or(x, y) == IF Truthy(x) THEN x ELSE y

\* str(x) of None or a string
StrOf(x) == IF IsNone(x) THEN <<"N", "o", "n", "e">> ELSE x.s

IsSpace(c) == c = " "

RECURSIVE LStrip(_)
LStrip(s) == IF s # <<>> /\ IsSpace(Head(s)) THEN LStrip(Tail(s)) ELSE s

RECURSIVE RStrip(_)
RStrip(s) ==
    IF s # <<>> /\ IsSpace(s[Len(s)]) THEN RStrip(SubSeq(s, 1, Len(s) - 1)) ELSE s

\* str.strip()
Strip(s) == RStrip(LStrip(s))

LowerChar(c) ==
    CASE c = "A" -> "a"
      [] c = "B" -> "b"
      [] c = "F" -> "f"
      [] c = "N" -> "n"
      [] c = "T" -> "t"
      [] OTHER -> c

\* str.lower(), and SQL lower()
Lower(s) == [i \in 1..Len(s) |-> LowerChar(s[i])]

\* SQL  str LIKE pat : "%" matches any run of characters, "_" any one character
RECURSIVE Like(_, _)
Like(str, pat) ==
    IF pat = <<>> THEN str = <<>>
    ELSE IF Head(pat) = "%"
         THEN \E k \in 0..Len(str) : Like(SubSeq(str, k + 1, Len(str)), Tail(pat))
    ELSE IF str = <<>> THEN FALSE
    ELSE /\ (Head(pat) = "_" \/ Head(pat) = Head(str))
         /\ Like(Tail(str), Tail(pat))

\* column.ilike(pat), rendered  lower(column) LIKE lower(pat)
ILike(column, pat) == Like(Lower(column), Lower(pat))

IsDigit(c) == c \in {"0", "1", "2", "3", "4", "5", "6", "7", "8", "9"}

DigitVal(c) ==
    CASE c = "0" -> 0 [] c = "1" -> 1 [] c = "2" -> 2 [] c = "3" -> 3
      [] c = "4" -> 4 [] c = "5" -> 5 [] c = "6" -> 6 [] c = "7" -> 7
      [] c = "8" -> 8 [] c = "9" -> 9

RECURSIVE DigitsVal(_)
DigitsVal(s) ==
    IF s = <<>> THEN 0 ELSE DigitsVal(SubSeq(s, 1, Len(s) - 1)) * 10 + DigitVal(s[Len(s)])

\* int(x): [ok, i]; ok = FALSE stands for TypeError / ValueError.
\* A string is stripped, may carry one sign, and must then be all digits.
ParseInt(x) ==
    CASE IsInt(x) -> [ok |-> TRUE, i |-> x.i]
      [] IsNone(x) -> [ok |-> FALSE, i |-> 0]
      [] IsStr(x) ->
            LET body == Strip(x.s)
                signed == body # <<>> /\ Head(body) \in {"+", "-"}
                digits == IF signed THEN Tail(body) ELSE body
                wellformed == digits # <<>> /\ \A k \in 1..Len(digits) : IsDigit(digits[k])
            IN  IF ~wellformed THEN [ok |-> FALSE, i |-> 0]
                ELSE IF signed /\ Head(body) = "-"
                     THEN [ok |-> TRUE, i |-> 0 - DigitsVal(digits)]
                     ELSE [ok |-> TRUE, i |-> DigitsVal(digits)]

\* ------------------------------------------------------------- validation

\* DataManager._normalize_name
normalize_name(name) == Strip(Or(name, Str(<<>>)).s)

\* a faulty variant of rating_in_range: the upper limit off by one
rating_upto_eleven(r) == 1 <= r /\ r <= 11

\* "if not (1 <= r <= 10)"
rating_in_range(r) == 1 <= r /\ r <= 10

\* DataManager._validate_movie_input: [err, title, rating]
validate_movie_input(title, rating) ==
    LET t == Strip(Or(title, Str(<<>>)).s)
        r == ParseInt(rating)
    IN  IF t = <<>> THEN [err |-> "InvalidInput", title |-> t, rating |-> None]
        ELSE IF IsNone(rating) \/ rating = Str(<<>>)
             THEN [err |-> "None", title |-> t, rating |-> None]
        ELSE IF ~r.ok THEN [err |-> "InvalidInput", title |-> t, rating |-> None]
        ELSE IF ~rating_in_range(r.i) THEN [err |-> "InvalidInput", title |-> t, rating |-> None]
        ELSE [err |-> "None", title |-> t, rating |-> Num(r.i)]

\* ------------------------------------------------------------------ schema

\* Attributes of class Movie in models.py; Movie(**kwargs) takes no other keyword.
ModelsPyColumns == {"id", "title", "year", "poster_url", "rating", "user_id", "user"}

\* The schema flavor data_manager.py is written against: the one of models.py plus
\* the external id column (spec section 3, external_id) that add_movie sets as imdb_id.
EnrichmentColumns == ModelsPyColumns \cup {"imdb_id"}

\* Integer primary key without AUTOINCREMENT: SQLite assigns max(rowid) + 1.
NextId(rows) ==
    IF rows = {} THEN 1
    ELSE (CHOOSE i \in {x.id : x \in rows} : \A x \in rows : x.id <= i) + 1

\* UniqueConstraint("user_id", "title"): exact (BINARY collation) comparison.
uq_movie_user_title(rows) ==
    \A m1, m2 \in rows :
        (m1.user_id = m2.user_id /\ m1.title = m2.title) => m1.id = m2.id

\* user.name unique=True: exact comparison.
uq_user_name(rows) ==
    \A u1, u2 \in rows : u1.name = u2.name => u1.id = u2.id

\* a faulty variant of query_get: Movie.query.first() in place of get(movie_id)
query_first(rows, id) == IF rows = {} THEN {} ELSE {CHOOSE m \in rows : TRUE}

\* Movie.query.get(movie_id): the row with that primary key, if any (a set of <= 1 rows)
query_get(rows, id) == {m \in rows : m.id = id}

\* ------------------------------------------------------------- OMDb client

TitleA == <<"A">>
Year1999 == Str(<<"1", "9", "9", "9">>)
ImdbTt1 == Str(<<"t", "t", "1">>)
PosterNA == Str(<<"N", "/", "A">>)
PosterJpg == Str(<<"p">>)

\* What the process environment and the OMDb service answer to one lookup.
NoKeyEnv ==
    [api_key |-> FALSE, raised |-> FALSE,
     data |-> [Response |-> None, Title |-> None, Year |-> None, imdbID |-> None, Poster |-> None]]

OmdbEnvs ==
    { NoKeyEnv,
      \* requests.get / raise_for_status / resp.json raises
      [api_key |-> TRUE, raised |-> TRUE,
       data |-> [Response |-> None, Title |-> None, Year |-> None, imdbID |-> None, Poster |-> None]],
      \* {"Response": "False", "Error": "Movie not found!"}
      [api_key |-> TRUE, raised |-> FALSE,
       data |-> [Response |-> Str(<<"F", "a", "l", "s", "e">>), Title |-> None, Year |-> None,
                 imdbID |-> None, Poster |-> None]],
      \* a hit: the canonical title "A", year, id and poster
      [api_key |-> TRUE, raised |-> FALSE,
       data |-> [Response |-> Str(<<"T", "r", "u", "e">>), Title |-> Str(TitleA), Year |-> Year1999,
                 imdbID |-> ImdbTt1, Poster |-> PosterJpg]],
      \* a hit that carries nothing but the "N/A" poster sentinel
      [api_key |-> TRUE, raised |-> FALSE,
       data |-> [Response |-> Str(<<"T", "r", "u", "e">>), Title |-> None, Year |-> None,
                 imdbID |-> None, Poster |-> PosterNA]] }

\* DataManager._fetch_omdb: [title, year, imdb_id, poster_url]
fetch_omdb(title, env) ==
    LET fallback == [title |-> title, year |-> None, imdb_id |-> None, poster_url |-> None]
        data == env.data
    IN  IF ~env.api_key THEN fallback
        ELSE IF env.raised THEN fallback
        ELSE IF Lower(StrOf(data.Response)) = <<"t", "r", "u", "e">>
             THEN [title |-> Or(data.Title, Str(title)).s,
                   year |-> data.Year,
                   imdb_id |-> data.imdbID,
                   poster_url |-> IF data.Poster \notin {None, PosterNA} THEN data.Poster ELSE None]
        ELSE fallback

\* ------------------------------------------------------------ DataManager
\* Every operation is an operator from the table contents and the arguments to the
\* new table contents and the outcome.  err is "None" for success, the kind of the
\* returned error message ("InvalidInput", "Conflict", "NotFound",
\* "PersistenceError" for a caught SQLAlchemyError), or "TypeError" for an
\* exception the operation does not catch.

\* a faulty variant of name_taken: like() in place of ilike()
name_taken_exact(us, norm) == \E u \in us : Like(u.name, norm)

\* User.query.filter(User.name.ilike(norm)).first()
name_taken(us, norm) == \E u \in us : ILike(u.name, norm)

\* DataManager.create_user: [users, err]
create_user(us, name) ==
    LET norm == normalize_name(name)
        added == us \cup {[id |-> NextId(us), name |-> norm]}
    IN  IF norm = <<>> THEN [users |-> us, err |-> "InvalidInput"]
        ELSE IF name_taken(us, norm) THEN [users |-> us, err |-> "Conflict"]
        ELSE IF ~uq_user_name(added) THEN [users |-> us, err |-> "PersistenceError"]
        ELSE [users |-> added, err |-> "None"]

\* Movie.query.filter(user_id == ...).filter(Movie.title.ilike(title)).first()
title_taken(ms, user_id, title) ==
    \E m \in ms : m.user_id = user_id /\ ILike(m.title, title)

\* DataManager.add_movie up to the duplicate query: [err, title, rating]
add_movie_check(ms, user_id, title, rating) ==
    LET v == validate_movie_input(title, rating)
    IN  IF v.err # "None" THEN v
        ELSE IF title_taken(ms, user_id, v.title)
             THEN [err |-> "Conflict", title |-> v.title, rating |-> v.rating]
        ELSE v

\* The keywords add_movie passes to Movie(...)
AddMovieKwargs == {"user_id", "title", "year", "imdb_id", "poster_url", "rating"}

\* DataManager.add_movie from the lookup on: enrich, construct, add, commit.
\* [movies, err]
add_movie_store(ms, cols, user_id, norm_title, norm_rating, env) ==
    LET meta == fetch_omdb(norm_title, env)
        movie == [id |-> NextId(ms), user_id |-> user_id, title |-> meta.title,
                  year |-> meta.year, imdb_id |-> meta.imdb_id,
                  poster_url |-> meta.poster_url, rating |-> norm_rating]
        added == ms \cup {movie}
    IN  IF ~(AddMovieKwargs \subseteq cols) THEN [movies |-> ms, err |-> "TypeError"]
        ELSE IF ~uq_movie_user_title(added) THEN [movies |-> ms, err |-> "PersistenceError"]
        ELSE [movies |-> added, err |-> "None"]

\* DataManager.add_movie: [movies, err, fetched]
add_movie(ms, cols, user_id, title, rating, env) ==
    LET c == add_movie_check(ms, user_id, title, rating)
        s == add_movie_store(ms, cols, user_id, c.title, c.rating, env)
    IN  IF c.err # "None" THEN [movies |-> ms, err |-> c.err, fetched |-> FALSE]
        ELSE [movies |-> s.movies, err |-> s.err, fetched |-> TRUE]

\* update_movie: "If no new values provided, treat as no-op"
no_new_values(title, rating) ==
    /\ (IsNone(title) \/ Strip(title.s) = <<>>)
    /\ (IsNone(rating) \/ rating = Str(<<>>))

\* a faulty variant of reenrich_needed: the condition taken before movie.title is assigned
reenrich_needed_before_assign(new_title, old_title, cur_title) ==
    Lower(new_title) # Lower(Or(Str(old_title), Str(<<>>)).s)

\* update_movie: the condition of the re-enrichment branch, evaluated after
\* movie.title was assigned: old_title is the stored title, cur_title is movie.title
\* as the condition reads it.
reenrich_needed(new_title, old_title, cur_title) ==
    Lower(new_title) # Lower(Or(Str(cur_title), Str(<<>>)).s)

\* update_movie: "(Optional) re-enrich if title changed", applied to the assigned row
reenriched(assigned, refetch, meta) ==
    IF refetch
    THEN [assigned EXCEPT !.title = meta.title, !.year = meta.year,
                          !.imdb_id = meta.imdb_id, !.poster_url = meta.poster_url]
    ELSE assigned

\* update_movie: db.session.commit(), rolled back on an IntegrityError
update_movie_commit(ms, movie, final, refetch) ==
    IF ~uq_movie_user_title((ms \ {movie}) \cup {final})
    THEN [movies |-> ms, err |-> "PersistenceError", fetched |-> refetch]
    ELSE [movies |-> (ms \ {movie}) \cup {final}, err |-> "None", fetched |-> refetch]

\* update_movie: the re-enrichment branch, reading the row after the assignment
update_movie_enrich(ms, movie, assigned, new_title, env) ==
    update_movie_commit(ms, movie,
        reenriched(assigned, reenrich_needed(new_title, movie.title, assigned.title),
                   fetch_omdb(new_title, env)),
        reenrich_needed(new_title, movie.title, assigned.title))

\* update_movie: the duplicate check of a changed title, then the assignment
update_movie_validated(ms, movie, v, env) ==
    IF v.err # "None" THEN [movies |-> ms, err |-> v.err, fetched |-> FALSE]
    ELSE IF /\ Lower(v.title) # Lower(Or(Str(movie.title), Str(<<>>)).s)
            /\ title_taken(ms, movie.user_id, v.title)
        THEN [movies |-> ms, err |-> "Conflict", fetched |-> FALSE]
    ELSE update_movie_enrich(ms, movie,
                             [movie EXCEPT !.title = v.title, !.rating = v.rating],
                             v.title, env)

\* update_movie on the row it found
update_movie_found(ms, movie, title, rating, env) ==
    IF no_new_values(title, rating) THEN [movies |-> ms, err |-> "None", fetched |-> FALSE]
    ELSE update_movie_validated(ms, movie,
            validate_movie_input(Or(title, Str(movie.title)),
                                 IF ~IsNone(rating) THEN rating ELSE movie.rating),
            env)

\* DataManager.update_movie: [movies, err, fetched]
update_movie(ms, movie_id, title, rating, env) ==
    IF query_get(ms, movie_id) = {}
    THEN [movies |-> ms, err |-> "NotFound", fetched |-> FALSE]
    ELSE update_movie_found(ms, CHOOSE m \in query_get(ms, movie_id) : TRUE,
                            title, rating, env)

\* DataManager.delete_movie: [movies, err]
delete_movie(ms, movie_id) ==
    LET found == query_get(ms, movie_id)
    IN  IF found = {} THEN [movies |-> ms, err |-> "NotFound"]
        ELSE [movies |-> ms \ found, err |-> "None"]

\* ------------------------------------------------------------------ inputs

NameInputs ==
    { None, Str(<<>>), Str(<<" ">>), Str(<<"a">>), Str(<<"A">>), Str(<<"a", " ">>),
      Str(<<"b">>), Str(<<"_">>) }

\* the names the owners of movies are created with
OwnerNames == { Str(<<"a">>) }

TitleInputs == { Str(<<" ">>), Str(<<"a">>), Str(<<"A", " ">>), Str(<<"b">>) }

\* update_movie also takes no title, or an empty one
UpdateTitleInputs == TitleInputs \cup { None, Str(<<>>) }

RatingInputs == { None, Str(<<>>), Str(<<"7">>), Num(11), Str(<<"x">>) }

\* request.form values: a string, or None for a field the form does not carry
FormRatings == {r \in RatingInputs : ~IsInt(r)}

UserIds == 1..MaxUsers
MovieIds == 1..MaxMovies

\* the user whose movies the calls of Spec are about: add_movie, update_movie and
\* delete_movie never read the user table, and scope their queries by user_id
OwnerIds == {1}

\* ratings of the concurrent requests
ConcRatings == { None, Str(<<"7">>) }

\* ------------------------------------------------------------------- state

Idle == [pc |-> "idle", user_id |-> 0, title |-> <<>>, rating |-> None]

\* The most recent call: what was called with which arguments (id is the user or
\* movie id, title the title or name), the kind of error it returned, whether it
\* got to _fetch_omdb, and for a request the HTTP status and the flashed categories.
Called(op, id, title, rating, err, fetched) ==
    [op |-> op, id |-> id, title |-> title, rating |-> rating, err |-> err,
     fetched |-> fetched, status |-> 0, flash |-> <<>>]

Served(op, id, title, rating, err, status, flash) ==
    [op |-> op, id |-> id, title |-> title, rating |-> rating, err |-> err,
     fetched |-> FALSE, status |-> status, flash |-> flash]

Init ==
    /\ users = {}
    /\ movies = {}
    /\ movie_columns \in {ModelsPyColumns, EnrichmentColumns}
    /\ reqs = [r \in 1..NumRequests |-> Idle]
    /\ last = Called("init", 0, None, None, "None", FALSE)

\* ------------------------------------------------- DataManager, one call each
\* The process environment is consulted only by a call that gets to _fetch_omdb:
\* a call that does not is taken with the environment NoKeyEnv alone.

\* a call's result [users, err] becomes the new user table
UsersCall(op, name, r) ==
    /\ \A u \in r.users : u.id <= MaxUsers
    /\ users' = r.users
    /\ last' = Called(op, 0, name, None, r.err, FALSE)
    /\ UNCHANGED <<movies, movie_columns, reqs>>

\* a call's result [movies, err, fetched] becomes the new movie table
MoviesCall(op, id, title, rating, r, env) ==
    /\ r.fetched \/ env = NoKeyEnv
    /\ \A m \in r.movies : m.id <= MaxMovies
    /\ movies' = r.movies
    /\ last' = Called(op, id, title, rating, r.err, r.fetched)
    /\ UNCHANGED <<users, movie_columns, reqs>>

CreateUser(name) == UsersCall("create_user", name, create_user(users, name))

AddMovie(user_id, title, rating, env) ==
    MoviesCall("add_movie", user_id, title, rating,
               add_movie(movies, movie_columns, user_id, title, rating, env), env)

UpdateMovie(movie_id, title, rating, env) ==
    MoviesCall("update_movie", movie_id, title, rating,
               update_movie(movies, movie_id, title, rating, env), env)

DeleteMovie(movie_id) ==
    LET r == delete_movie(movies, movie_id)
    IN  /\ movies' = r.movies
        /\ last' = Called("delete_movie", movie_id, None, None, r.err, FALSE)
        /\ UNCHANGED <<users, movie_columns, reqs>>

\* ------------------------------------------------------------------ routes

\* request.form.get(key, default)
FormGet(field, default) == IF IsNone(field) THEN default ELSE field

\* Parameters of the DataManager methods, and the keywords app.py calls them with.
AddMovieParams == {"user_id", "title", "rating"}
UpdateMovieParams == {"movie_id", "title", "rating"}
RouteAddMovieKwargs == {"title", "year", "poster_url", "rating"}
RouteUpdateMovieKwargs == {"title", "rating", "year", "poster_url"}

\* A call binds when every keyword names a parameter; otherwise Python raises TypeError.
Binds(params, kwargs) == kwargs \subseteq params

\* flash(err, "error") if err else flash(..., "success")
FlashFor(err_truthy) == IF err_truthy THEN <<"error">> ELSE <<"success">>

\* What a route answers to the outcome of its DataManager call: an exception that
\* nothing catches is a 500 without flash; otherwise one flash and a redirect.
Respond(op, id, title, rating, err, err_truthy) ==
    IF err = "TypeError" THEN Served(op, id, title, rating, err, 500, <<>>)
    ELSE Served(op, id, title, rating, err, 302, FlashFor(err_truthy))

\* the failed call of a method with keywords it does not take
Unbound == [movies |-> movies, err |-> "TypeError", fetched |-> FALSE]

\* a route around a call with result [movies, err, fetched]; pair_bound says that
\* the route tests the whole (movie, error) pair, which is truthy
MoviesRoute(op, id, title, rating, r, env, pair_bound) ==
    /\ r.fetched \/ env = NoKeyEnv
    /\ \A m \in r.movies : m.id <= MaxMovies
    /\ movies' = r.movies
    /\ last' = Respond(op, id, title, rating, r.err, pair_bound \/ r.err # "None")
    /\ UNCHANGED <<users, movie_columns, reqs>>

\* POST /users
RouteCreateUser(name_field) ==
    LET r == create_user(users, FormGet(name_field, Str(<<>>)))
    IN  /\ \A u \in r.users : u.id <= MaxUsers
        /\ users' = r.users
        /\ last' = Respond("route_create_user", 0, name_field, None, r.err, r.err # "None")
        /\ UNCHANGED <<movies, movie_columns, reqs>>

\* add_movie route: rating_raw = request.form.get("rating") or None, then
\* rating = rating_raw unless it is one of None, "", "None"
route_rating(rating_field) ==
    IF Or(rating_field, None) \notin {None, Str(<<>>), Str(<<"N", "o", "n", "e">>)}
    THEN Or(rating_field, None) ELSE None

\* POST /users/<user_id>/movies
RouteAddMovie(user_id, title_field, rating_field, env) ==
    MoviesRoute("route_add_movie", user_id, title_field, rating_field,
        IF Binds(AddMovieParams, RouteAddMovieKwargs \cup {"user_id"})
        THEN add_movie(movies, movie_columns, user_id, FormGet(title_field, Str(<<>>)),
                       route_rating(rating_field), env)
        ELSE Unbound,
        env, FALSE)

\* POST /users/<user_id>/movies/<movie_id>/update
RouteUpdateMovie(movie_id, title_field, rating_field, env) ==
    MoviesRoute("route_update_movie", movie_id, title_field, rating_field,
        IF Binds(UpdateMovieParams, RouteUpdateMovieKwargs \cup {"movie_id"})
        THEN update_movie(movies, movie_id, title_field,
                          IF rating_field \notin {Str(<<>>), None} THEN rating_field ELSE None,
                          env)
        ELSE Unbound,
        env, TRUE)

\* POST /users/<user_id>/movies/<movie_id>/delete
RouteDeleteMovie(movie_id) ==
    LET r == delete_movie(movies, movie_id)
    IN  /\ movies' = r.movies
        /\ last' = Respond("route_delete_movie", movie_id, None, None, r.err, r.err # "None")
        /\ UNCHANGED <<users, movie_columns, reqs>>

\* ------------------------------------------- add_movie under concurrent requests

\* A request thread runs add_movie up to the duplicate query ...
AddMovieCheck(req, user_id, title, rating) ==
    LET c == add_movie_check(movies, user_id, title, rating)
    IN  /\ reqs[req].pc = "idle"
        /\ reqs' = IF c.err = "None"
                   THEN [reqs EXCEPT ![req] = [pc |-> "checked", user_id |-> user_id,
                                               title |-> c.title, rating |-> c.rating]]
                   ELSE reqs
        /\ last' = Called("add_movie_check", user_id, title, rating, c.err, FALSE)
        /\ UNCHANGED <<users, movies, movie_columns>>

\* ... and later enriches, adds and commits (OMDB_API_KEY unset: the title is kept).
AddMovieCommit(req) ==
    LET q == reqs[req]
        s == add_movie_store(movies, movie_columns, q.user_id, q.title, q.rating, NoKeyEnv)
    IN  /\ q.pc = "checked"
        /\ \A m \in s.movies : m.id <= MaxMovies
        /\ movies' = s.movies
        /\ reqs' = [reqs EXCEPT ![req] = Idle]
        /\ last' = Called("add_movie_commit", q.user_id, Str(q.title), q.rating, s.err, TRUE)
        /\ UNCHANGED <<users, movie_columns>>

\* --------------------------------------------------------- specifications

Next ==
    \/ \E u \in OwnerIds, t \in TitleInputs, r \in RatingInputs, e \in OmdbEnvs :
            AddMovie(u, t, r, e)
    \/ \E m \in MovieIds, t \in UpdateTitleInputs, r \in RatingInputs, e \in OmdbEnvs :
            UpdateMovie(m, t, r, e)
    \/ \E m \in MovieIds : DeleteMovie(m)

\* the movie operations of DataManager, called one at a time; none of them reads
\* the user table (add_movie takes any user_id), which stays as Init leaves it
Spec == Init /\ [][Next]_vars

NextUsers ==
    \/ \E name \in NameInputs : CreateUser(name)
    \/ \E name \in NameInputs : RouteCreateUser(name)

\* the user table alone
SpecUsers == Init /\ [][NextUsers]_vars

NextWeb ==
    \/ \E name \in OwnerNames \cup {None} : RouteCreateUser(name)
    \/ \E u \in UserIds, t \in TitleInputs \cup {None}, r \in FormRatings, e \in OmdbEnvs :
            RouteAddMovie(u, t, r, e)
    \/ \E m \in MovieIds, t \in UpdateTitleInputs, r \in FormRatings, e \in OmdbEnvs :
            RouteUpdateMovie(m, t, r, e)
    \/ \E m \in MovieIds : RouteDeleteMovie(m)
    \/ \E u \in UserIds, t \in TitleInputs : AddMovie(u, t, None, NoKeyEnv)

\* the routes of app.py, over tables that direct add_movie calls fill
SpecWeb == Init /\ [][NextWeb]_vars

NextConc ==
    \/ \E req \in 1..NumRequests, u \in UserIds, t \in TitleInputs, r \in ConcRatings :
            AddMovieCheck(req, u, t, r)
    \/ \E req \in 1..NumRequests : AddMovieCommit(req)
    \/ \E m \in MovieIds : DeleteMovie(m)

\* add_movie requests interleaved between the duplicate query and the commit
SpecConc == Init /\ [][NextConc]_vars

\* ------------------------------------------------------------------ claims

SameIgnoringCase(s1, s2) == Lower(s1) = Lower(s2)

\* an argument that is omitted (None) or an empty or all-blank string
Blank(x) == IsNone(x) \/ (IsStr(x) /\ Strip(x.s) = <<>>)

\* a title or name argument, cleaned: surrounding whitespace trimmed
Cleaned(x) == IF IsNone(x) THEN <<>> ELSE Strip(x.s)

Stored(id) == \E m \in movies : m.id = id

RouteOps == {"route_create_user", "route_add_movie", "route_update_movie", "route_delete_movie"}

\* the ratings among RatingInputs that are non-numeric or outside 1..10
InvalidRatings == { Num(11), Str(<<"x">>) }

C2_NamesUniqueIgnoringCase ==
    [][ /\ \A u1, u2 \in users' : SameIgnoringCase(u1.name, u2.name) => u1.id = u2.id
        /\ ( /\ last'.op \in {"create_user", "route_create_user"}
             /\ Cleaned(last'.title) # <<>>
             /\ \E u \in users : SameIgnoringCase(u.name, Cleaned(last'.title)) )
           => (last'.err = "Conflict" /\ users' = users) ]_vars

\* C2 witness: "A" was refused with Conflict while "a" is stored, and stays the one row.
C2_ConflictOnCaseVariant ==
    /\ last.op = "create_user" /\ last.title = Str(<<"A">>) /\ last.err = "Conflict"
    /\ Cardinality({u \in users : SameIgnoringCase(u.name, <<"a">>)}) = 1
    /\ \E u \in users : u.name = <<"a">>

\* C3: an add_movie of an otherwise valid movie for a user id that references no
\* user returns NotFound and stores nothing, and every stored movie's user_id
\* references an existing user.
C3_AddMovieChecksUser ==
    [][ /\ ( /\ last'.op = "add_movie"
             /\ ~\E u \in users : u.id = last'.id
             /\ Cleaned(last'.title) # <<>>
             /\ last'.rating \notin InvalidRatings )
           => (last'.err = "NotFound" /\ movies' = movies)
        /\ \A m \in movies' : \E u \in users' : u.id = m.user_id ]_vars

C7_RoutesRedirectWithOneFlash ==
    last.op \in RouteOps =>
        /\ last.status = 302
        /\ Len(last.flash) = 1
        /\ last.flash[1] = "success" <=> last.err = "None"
        /\ last.flash[1] = "error" <=> last.err \in {"InvalidInput", "NotFound", "Conflict"}

\* C8: update_movie and delete_movie with a movie id that is not stored return
\* NotFound, whatever the title and rating, and change no user and no movie.
C8_MissingIdNotFound ==
    [][ (last'.op \in {"update_movie", "delete_movie"} /\ ~Stored(last'.id))
            => (last'.err = "NotFound" /\ movies' = movies /\ users' = users) ]_vars

\* C8 witness: an update without title and rating of an id that is not stored, next
\* to a stored movie, came back NotFound.
C8_BlankUpdateOfMissingId ==
    /\ last.op = "update_movie" /\ last.err = "NotFound"
    /\ Blank(last.title) /\ Blank(last.rating)
    /\ movies # {} /\ ~Stored(last.id)

====
